---- MODULE Spec2Model ----
(***************************************************************************)
(* Lowering of MIR filters to LIR filters (jaq-interpret/src/lir.rs).      *)
(*                                                                         *)
(* The lowering context Ctx owns the arena `defs` (a vector of LIR nodes   *)
(* addressed by AbsId = position) and the stack `callable`.  Arena slot    *)
(* AbsId(i) is defs[i + 1] here, because TLA+ sequences start at 1; the    *)
(* same holds for RelId and `callable`.                                    *)
(*                                                                         *)
(* Nodes and expressions are tuples whose first element is the variant     *)
(* name.  Option<T> is <<>> for None and <<x>> for Some(x).                *)
(***************************************************************************)
EXTENDS Integers, Sequences, FiniteSets, TLC

VARIABLES
    phase,      \* "new" | "ready" | "aborted": before / after Ctx::default, or after a panic
    defs,       \* Ctx.defs: the arena
    callable,   \* Ctx.callable: the stack of Callables
    panic,      \* the message of the panic that aborted lowering, NoPanic if none
    frames,     \* the active calls of Ctx::def, innermost last
    allocs,     \* history: the AbsId handed out by every push onto the arena, in order
    writes,     \* history: writes[i + 1] = how often the slot AbsId(i) was overwritten by def
    events,     \* history: what the last step did at every Expr::Call it lowered
    placed,     \* history: the placeholder slot of every definition entered, in order
    rich,       \* how many bodies were drawn from BodySet so far
    ops,        \* how many expressions SpecExpr has lowered so far
    last,       \* history: the last operation, its input and its result
    twin        \* history: the last operation's input lowered in its other spelling

vars == <<phase, defs, callable, panic, frames, allocs, writes, events, placed, rich, ops,
          last, twin>>

----------------------------------------------------------------------------
(* Bounds of the model. *)

\* user definitions lowered in one run (top-level and nested together)
MaxDefs == 3
\* definitions whose body is an arbitrary member of BodySet; the other bodies are `.`
MaxRich == 1
\* slots of the largest arena SpecExpr lowers another expression into
MaxArena == 10
\* parts of an interpolated string
MaxParts == 3
\* branches of a conditional
MaxBranches == 3

----------------------------------------------------------------------------
(* Reserved identifiers. *)

IDENTITY == 0
TOSTRING == IDENTITY + 1
EMPTY == TOSTRING + 2
RECURSE == EMPTY + 4

None == <<>>
Some(x) == <<x>>
IsSome(o) == o # <<>>

NoPanic == ""
\* the AbsId an operation yields once lowering has panicked: it is never stored
Dead == 0 - 1
\* the Filter an operation yields once lowering has panicked: it is never stored
Aborted == <<"Aborted">>

----------------------------------------------------------------------------
(* The context threaded through the lowering functions (&mut self).        *)

Panicked(ctx) == ctx.panic # NoPanic

Raise(ctx, msg) == IF Panicked(ctx) THEN ctx ELSE [ctx EXCEPT !.panic = msg]

\* assert_eq!(a, b)
AssertEq(ctx, a, b) == IF a = b THEN ctx ELSE Raise(ctx, "assertion failed")

\* Ctx::id_of_ast
IdOfAst(ctx, f) ==
    IF Panicked(ctx)
    THEN [ctx |-> ctx, id |-> Dead]
    ELSE LET len == Len(ctx.defs)
         IN  [ctx |-> [ctx EXCEPT !.defs = Append(@, f), !.allocs = Append(@, len),
                                  !.writes = Append(@, 0)],
              id |-> len]

\* `let v = ...; k(v)`: the value of a statement handed to the statements after it
Bind(v, K(_)) == K(v)

\* path::Part::Range(None, None) with its Opt
RangeAll(opt) == <<<<"Range", None, None>>, opt>>

\* Path::from(part): a path of the one part, essential
PathFrom(part) == <<<<part, "Essential">>>>

\* fn recurse(typ)
RecurseCall(typ) == <<"Call", RECURSE, typ, 0, <<>>>>

\* Ctx::empty without the slot of the empty object
EmptyOnIdentity(ctx) ==
    [ctx |-> ctx, f |-> <<"Path", IDENTITY, <<RangeAll("Essential")>>>>]

\* Ctx::empty
Empty(ctx) ==
    Bind(IdOfAst(ctx, <<"ObjEmpty">>), LAMBDA o :
    [ctx |-> o.ctx, f |-> <<"Path", o.id, <<RangeAll("Essential")>>>>])

\* Ctx::recurse
Recurse(ctx) ==
    Bind(IdOfAst(ctx, <<"Path", IDENTITY, <<RangeAll("Optional")>>>>), LAMBDA p :
    Bind(IdOfAst(p.ctx, RecurseCall("Throw")), LAMBDA q :
    Bind(IdOfAst(q.ctx, <<"Pipe", p.id, FALSE, q.id>>), LAMBDA c :
    [ctx |-> c.ctx, f |-> <<"Comma", IDENTITY, c.id>>])))

\* Self { defs: Vec::new(), callable: Vec::new() }
NewCtx == [defs |-> <<>>, callable |-> <<>>, panic |-> NoPanic, allocs |-> <<>>,
           writes |-> <<>>, events |-> <<>>]

\* let id_ = ctx.id_of_ast(f); assert_eq!(id, id_)
Reserve(ctx, f, id) ==
    Bind(IdOfAst(ctx, f), LAMBDA a : AssertEq(a.ctx, id, a.id))

\* Ctx::default
CtxDefault ==
    Bind(Reserve(NewCtx, <<"Id">>, IDENTITY), LAMBDA c0 :
    Bind(Reserve(c0, <<"ToString">>, TOSTRING), LAMBDA c1 :
    Bind(Empty(c1), LAMBDA e :
    Bind(Reserve(e.ctx, e.f, EMPTY), LAMBDA c2 :
    Bind(Recurse(c2), LAMBDA r :
    Reserve(r.ctx, r.f, RECURSE))))))

----------------------------------------------------------------------------
(* Lowering of expressions.  Every function takes the context and yields   *)
(* the context it leaves together with its value.                          *)

RECURSIVE Filter(_, _)

\* Ctx::get
Get(ctx, e) ==
    Bind(Filter(ctx, e), LAMBDA r : IdOfAst(r.ctx, r.f))

\* xs.into_iter().map(|a| self.get(a)).collect(): in source order
RECURSIVE GetSeq(_, _)
GetSeq(ctx, es) ==
    IF es = <<>>
    THEN [ctx |-> ctx, ids |-> <<>>]
    ELSE Bind(Get(ctx, Head(es)), LAMBDA h :
         Bind(GetSeq(h.ctx, Tail(es)), LAMBDA t :
         [ctx |-> t.ctx, ids |-> <<h.id>> \o t.ids]))

\* o.map(|f| self.get(f))
GetOpt(ctx, o) ==
    IF IsSome(o)
    THEN Bind(Get(ctx, o[1]), LAMBDA g : [ctx |-> g.ctx, o |-> Some(g.id)])
    ELSE [ctx |-> ctx, o |-> None]

\* o.map_or(d, |f| self.get(f))
GetOr(ctx, o, d) ==
    IF IsSome(o) THEN Get(ctx, o[1]) ELSE [ctx |-> ctx, id |-> d]

\* Ctx::add
Add(ctx, l, r) ==
    Bind(IdOfAst(ctx, l), LAMBDA a :
    Bind(IdOfAst(a.ctx, r), LAMBDA b :
    [ctx |-> b.ctx, f |-> <<"Math", a.id, "Add", b.id>>]))

\* the fold with the operands of add swapped: self.add(acc, x)
RECURSIVE AddFoldSwapped(_, _, _)
AddFoldSwapped(ctx, init, acc) ==
    IF init = <<>>
    THEN [ctx |-> ctx, f |-> acc]
    ELSE Bind(Add(ctx, acc, init[Len(init)]), LAMBDA a :
         AddFoldSwapped(a.ctx, SubSeq(init, 1, Len(init) - 1), a.f))

\* iter.fold(last, |acc, x| self.add(x, acc)) over the reversed items before `last`;
\* `init` holds them in source order, so the fold takes them from the right
RECURSIVE AddFold(_, _, _)
AddFold(ctx, init, acc) ==
    IF init = <<>>
    THEN [ctx |-> ctx, f |-> acc]
    ELSE Bind(Add(ctx, init[Len(init)], acc), LAMBDA a :
         AddFold(a.ctx, SubSeq(init, 1, Len(init) - 1), a.f))

\* let last = iter.next().unwrap_or(dflt); iter.fold(last, ...) over fs.rev()
FoldRev(ctx, fs, dflt) ==
    IF fs = <<>>
    THEN [ctx |-> ctx, f |-> dflt]
    ELSE AddFold(ctx, SubSeq(fs, 1, Len(fs) - 1), fs[Len(fs)])

\* the closure mapped over s.parts in Ctx::of_str
OfStrPart(ctx, part, fmt) ==
    IF part[1] = "Str"
    THEN [ctx |-> ctx, f |-> <<"Str", part[2]>>]
    ELSE Bind(Get(ctx, part[2]), LAMBDA g :
         [ctx |-> g.ctx, f |-> <<"Pipe", g.id, FALSE, fmt>>])

\* the map over s.parts in Ctx::of_str, collected in source order
RECURSIVE OfStrParts(_, _, _)
OfStrParts(ctx, parts, fmt) ==
    IF parts = <<>>
    THEN [ctx |-> ctx, fs |-> <<>>]
    ELSE Bind(OfStrPart(ctx, Head(parts), fmt), LAMBDA h :
         Bind(OfStrParts(h.ctx, Tail(parts), fmt), LAMBDA t :
         [ctx |-> t.ctx, fs |-> <<h.f>> \o t.fs]))

\* Ctx::of_str
OfStr(ctx, s) ==
    Bind(GetOr(ctx, s.fmt, TOSTRING), LAMBDA fmt :
    Bind(OfStrParts(fmt.ctx, s.parts, fmt.id), LAMBDA ps :
    FoldRev(ps.ctx, ps.fs, <<"Str", "">>)))

\* Ctx::of_key_val with the shorthand's value an optional index
OfKeyValOptional(ctx, kv) ==
    IF kv[1] = "Filter"
    THEN Bind(Get(ctx, kv[2]), LAMBDA k :
         Bind(Get(k.ctx, kv[3]), LAMBDA v :
         [ctx |-> v.ctx, f |-> <<"ObjSingle", k.id, v.id>>]))
    ELSE Bind(OfStr(ctx, kv[2]), LAMBDA ks :
         Bind(IdOfAst(ks.ctx, ks.f), LAMBDA k :
         Bind(IF IsSome(kv[3])
              THEN Get(k.ctx, kv[3][1])
              ELSE IdOfAst(k.ctx, <<"Path", IDENTITY, <<<<<<"Index", k.id>>, "Optional">>>>>>),
              LAMBDA v :
         [ctx |-> v.ctx, f |-> <<"ObjSingle", k.id, v.id>>])))

\* Ctx::of_key_val
OfKeyVal(ctx, kv) ==
    IF kv[1] = "Filter"
    THEN Bind(Get(ctx, kv[2]), LAMBDA k :
         Bind(Get(k.ctx, kv[3]), LAMBDA v :
         [ctx |-> v.ctx, f |-> <<"ObjSingle", k.id, v.id>>]))
    ELSE Bind(OfStr(ctx, kv[2]), LAMBDA ks :
         Bind(IdOfAst(ks.ctx, ks.f), LAMBDA k :
         Bind(IF IsSome(kv[3])
              THEN Get(k.ctx, kv[3][1])
              ELSE IdOfAst(k.ctx, <<"Path", IDENTITY, PathFrom(<<"Index", k.id>>)>>),
              LAMBDA v :
         [ctx |-> v.ctx, f |-> <<"ObjSingle", k.id, v.id>>])))

\* o.into_iter().map(|kv| self.of_key_val(kv)), collected in source order
RECURSIVE OfKeyVals(_, _)
OfKeyVals(ctx, kvs) ==
    IF kvs = <<>>
    THEN [ctx |-> ctx, fs |-> <<>>]
    ELSE Bind(OfKeyVal(ctx, Head(kvs)), LAMBDA h :
         Bind(OfKeyVals(h.ctx, Tail(kvs)), LAMBDA t :
         [ctx |-> t.ctx, fs |-> <<h.f>> \o t.fs]))

\* the match on (tail, callable.tailrec) with the invalid pair downgraded to a normal call
CallTypOfDowngrading(tail, tailrec) ==
    CASE tail /\ tailrec       -> "Throw"
      [] tail /\ ~tailrec      -> "Normal"
      [] ~tail /\ tailrec      -> "Catch"
      [] ~tail /\ ~tailrec     -> "Normal"

\* the match on (tail, callable.tailrec) in Ctx::filter; "Panic" stands for the panic! arm
CallTypOf(tail, tailrec) ==
    CASE tail /\ tailrec       -> "Throw"
      [] tail /\ ~tailrec      -> "Panic"
      [] ~tail /\ tailrec      -> "Catch"
      [] ~tail /\ ~tailrec     -> "Normal"

\* the zip with every argument tagged a filter argument, whatever the target declares
ZipArgsAllFun(sigArgs, ids) ==
    [i \in 1..(IF Len(sigArgs) < Len(ids) THEN Len(sigArgs) ELSE Len(ids)) |->
        <<"Fun", ids[i]>>]

Min(a, b) == IF a < b THEN a ELSE b

\* callable.sig.args.iter().zip(args) ... .map(|(ty, a)| ty.as_ref().map(|_| a)).collect():
\* zip stops at the shorter side; Arg::map keeps the variant (Var or Fun) of `ty`
ZipArgs(sigArgs, ids) ==
    [i \in 1..Min(Len(sigArgs), Len(ids)) |-> <<sigArgs[i][1], ids[i]>>]

\* Ctx::get_callable and the rest of the mir::Call::Def arm, `c` being the Callable
CallNode(ctx, c, skip, tail, ids) ==
    IF CallTypOf(tail, c.tailrec) = "Panic"
    THEN [ctx |-> Raise(ctx, "TR call from inside a non-TR filter"), f |-> Aborted]
    ELSE [ctx |-> ctx,
          f |-> <<"Call", c.id, CallTypOf(tail, c.tailrec), skip, ZipArgs(c.sig.args, ids)>>]

\* the mir::Call::Def arm naming the target by its RelId instead of its AbsId
FilterCallDefByRelId(ctx, id, skip, tail, ids) ==
    IF id + 1 > Len(ctx.callable)
    THEN [ctx |-> Raise(ctx, "index out of bounds"), f |-> Aborted]
    ELSE CallNode(ctx, [ctx.callable[id + 1] EXCEPT !.id = id], skip, tail, ids)

\* the mir::Call::Def arm of Ctx::filter, `ids` being the lowered arguments
FilterCallDef(ctx, id, skip, tail, ids) ==
    IF id + 1 > Len(ctx.callable)
    THEN [ctx |-> Raise(ctx, "index out of bounds"), f |-> Aborted]
    ELSE CallNode(ctx, ctx.callable[id + 1], skip, tail, ids)

\* history: the call `call(args)` was lowered while the Callables `stack` were in
\* scope, with its arguments lowered to `ids`, and gave `out` (Aborted if it panicked)
Logged(ctx, stack, call, args, ids, out) ==
    [ctx EXCEPT !.events = Append(@, [call |-> call, args |-> args, ids |-> ids,
                                      stack |-> stack, out |-> out])]

\* the match on `call` in the Expr::Call arm of Ctx::filter, `ids` being the lowered arguments
CallArm(ctx, call, ids) ==
    CASE call[1] = "Arg" /\ ids = <<>> -> [ctx |-> ctx, f |-> <<"Var", call[2]>>]
      [] call[1] = "Arg" /\ ids # <<>> ->
            [ctx |-> Raise(ctx, "higher-order argument encountered"), f |-> Aborted]
      [] call[1] = "Native" -> [ctx |-> ctx, f |-> <<"Native", call[2], ids>>]
      [] call[1] = "Def" -> FilterCallDef(ctx, call[2], call[3], call[4], ids)

\* the Expr::Call arm of Ctx::filter
FilterCall(ctx, call, args) ==
    Bind(GetSeq(ctx, args), LAMBDA a :
    IF Panicked(a.ctx) THEN [ctx |-> a.ctx, f |-> Aborted]
    ELSE Bind(CallArm(a.ctx, call, a.ids), LAMBDA r :
         [ctx |-> Logged(r.ctx, ctx.callable, call, args, a.ids, r.f), f |-> r.f]))

\* the match on the operator in the Expr::Binary arm of Ctx::filter
BinaryNode(l, op, r) ==
    CASE op[1] = "Pipe"       -> <<"Pipe", l, IsSome(op[2]), r>>
      [] op[1] = "Comma"      -> <<"Comma", l, r>>
      [] op[1] = "Alt"        -> <<"Alt", l, r>>
      [] op[1] = "Or"         -> <<"Logic", l, TRUE, r>>
      [] op[1] = "And"        -> <<"Logic", l, FALSE, r>>
      [] op[1] = "Math"       -> <<"Math", l, op[2], r>>
      [] op[1] = "Ord"        -> <<"Ord", l, op[2], r>>
      [] op[1] = "Assign"     -> <<"Assign", l, r>>
      [] op[1] = "Update"     -> <<"Update", l, r>>
      [] op[1] = "UpdateWith" -> <<"UpdateMath", l, op[2], r>>

\* the closure folded over the branches in the Expr::Ite arm
IteStep(ctx, if_, then_, acc) ==
    Bind(Get(ctx, if_), LAMBDA i :
    Bind(Get(i.ctx, then_), LAMBDA t :
    Bind(IdOfAst(t.ctx, acc), LAMBDA e :
    [ctx |-> e.ctx, f |-> <<"Ite", i.id, t.id, e.id>>])))

\* if_thens.into_iter().rev().fold(else_, ...) in the Expr::Ite arm: from the last branch
RECURSIVE IteFold(_, _, _)
IteFold(ctx, if_thens, acc) ==
    IF if_thens = <<>>
    THEN [ctx |-> ctx, f |-> acc]
    ELSE Bind(IteStep(ctx, if_thens[Len(if_thens)][1], if_thens[Len(if_thens)][2], acc),
              LAMBDA s :
         IteFold(s.ctx, SubSeq(if_thens, 1, Len(if_thens) - 1), s.f))

\* the else-branch defaulting to the empty generator instead of the identity
ElseOfEmpty(ctx, else_) ==
    IF IsSome(else_) THEN Filter(ctx, else_[1]) ELSE Empty(ctx)

\* else_.map_or(Filter::Id, |else_| self.filter(*else_))
ElseOf(ctx, else_) ==
    IF IsSome(else_) THEN Filter(ctx, else_[1]) ELSE [ctx |-> ctx, f |-> <<"Id">>]

\* the Expr::Ite arm of Ctx::filter
FilterIte(ctx, if_thens, else_) ==
    Bind(ElseOf(ctx, else_), LAMBDA e : IteFold(e.ctx, if_thens, e.f))

\* the closure mapped over the parts in the Expr::Path arm
PathPart(ctx, p, opt) ==
    IF p[1] = "Index"
    THEN Bind(Get(ctx, p[2]), LAMBDA i :
         [ctx |-> i.ctx, part |-> <<<<"Index", i.id>>, opt>>])
    ELSE Bind(GetOpt(ctx, p[2]), LAMBDA lower :
         Bind(GetOpt(lower.ctx, p[3]), LAMBDA upper :
         [ctx |-> upper.ctx, part |-> <<<<"Range", lower.o, upper.o>>, opt>>]))

\* the map over the parts in the Expr::Path arm, collected in source order
RECURSIVE PathParts(_, _)
PathParts(ctx, path) ==
    IF path = <<>>
    THEN [ctx |-> ctx, parts |-> <<>>]
    ELSE Bind(PathPart(ctx, Head(path)[1], Head(path)[2]), LAMBDA h :
         Bind(PathParts(h.ctx, Tail(path)), LAMBDA t :
         [ctx |-> t.ctx, parts |-> <<h.part>> \o t.parts]))

\* the Expr::Path arm of Ctx::filter
FilterPath(ctx, f, path) ==
    Bind(Get(ctx, f), LAMBDA b :
    Bind(PathParts(b.ctx, path), LAMBDA p :
    [ctx |-> p.ctx, f |-> <<"Path", b.id, p.parts>>]))

\* Ctx::filter
Filter(ctx, e) ==
    CASE e[1] = "Var"     -> [ctx |-> ctx, f |-> <<"Var", e[2]>>]
      [] e[1] = "Call"    -> FilterCall(ctx, e[2], e[3])
      [] e[1] = "Fold"    ->
            Bind(Get(ctx, e[3]), LAMBDA xs :
            Bind(Get(xs.ctx, e[4]), LAMBDA init :
            Bind(Get(init.ctx, e[5]), LAMBDA f :
            [ctx |-> f.ctx, f |-> <<"Fold", e[2], xs.id, init.id, f.id>>])))
      [] e[1] = "Id"      -> [ctx |-> ctx, f |-> <<"Id">>]
      [] e[1] = "Num"     -> [ctx |-> ctx, f |-> <<"Num", e[2]>>]
      [] e[1] = "Int"     -> [ctx |-> ctx, f |-> <<"Int", e[2]>>]
      [] e[1] = "Str"     -> OfStr(ctx, e[2])
      [] e[1] = "Array"   ->
            Bind(GetOr(ctx, e[2], EMPTY), LAMBDA a :
            [ctx |-> a.ctx, f |-> <<"Array", a.id>>])
      [] e[1] = "Object"  ->
            Bind(OfKeyVals(ctx, e[2]), LAMBDA kvs :
            FoldRev(kvs.ctx, kvs.fs, <<"ObjEmpty">>))
      [] e[1] = "Try"     ->
            Bind(Get(ctx, e[2]), LAMBDA f :
            [ctx |-> f.ctx, f |-> <<"Try", f.id, EMPTY>>])
      [] e[1] = "Neg"     ->
            Bind(Get(ctx, e[2]), LAMBDA f :
            [ctx |-> f.ctx, f |-> <<"Neg", f.id>>])
      [] e[1] = "Recurse" -> [ctx |-> ctx, f |-> RecurseCall("Catch")]
      [] e[1] = "Binary"  ->
            Bind(Get(ctx, e[2]), LAMBDA l :
            Bind(Get(l.ctx, e[4]), LAMBDA r :
            [ctx |-> r.ctx, f |-> BinaryNode(l.id, e[3], r.id)]))
      [] e[1] = "Ite"     -> FilterIte(ctx, e[2], e[3])
      [] e[1] = "TryCatch" ->
            Bind(Get(ctx, e[2]), LAMBDA t :
            Bind(GetOr(t.ctx, e[3], EMPTY), LAMBDA c :
            [ctx |-> c.ctx, f |-> <<"Try", t.id, c.id>>]))
      [] e[1] = "Path"    -> FilterPath(ctx, e[2], e[3])

----------------------------------------------------------------------------
(* Lowering of definitions: Ctx::def and Ctx::main, cut where def calls    *)
(* main and main calls def.                                                *)

\* Ctx::def up to the call of main, the Callable not pushed before the body is lowered
DefBeginNoCallable(ctx, sig, tailrec) ==
    Bind(Len(ctx.defs), LAMBDA id :
    [ctx |-> [ctx EXCEPT !.defs = Append(@, <<"Id">>),
                         !.allocs = Append(@, id),
                         !.writes = Append(@, 0)],
     id |-> id])

\* Ctx::def up to the call of main: the placeholder and the Callable
DefBegin(ctx, sig, tailrec) ==
    Bind(Len(ctx.defs), LAMBDA id :
    [ctx |-> [ctx EXCEPT !.defs = Append(@, <<"Id">>),
                         !.allocs = Append(@, id),
                         !.writes = Append(@, 0),
                         !.callable = Append(@, [sig |-> sig, id |-> id,
                                                 tailrec |-> tailrec])],
     id |-> id])

\* main without the drain
DrainNothing(ctx, defs_len) == ctx

\* self.callable.drain(self.callable.len() - defs_len..)
Drain(ctx, defs_len) ==
    IF Panicked(ctx) THEN ctx
    ELSE IF defs_len > Len(ctx.callable)
    THEN Raise(ctx, "attempt to subtract with overflow")
    ELSE [ctx EXCEPT !.callable = SubSeq(@, 1, Len(@) - defs_len)]

\* Ctx::main after the loop over main.defs: the body, then the drain
MainBody(ctx, defs_len, body) ==
    Bind(Filter(ctx, body), LAMBDA b : [ctx |-> Drain(b.ctx, defs_len), f |-> b.f])

\* the end of Ctx::def writing the body one slot before the placeholder
DefEndOffByOne(ctx, id, f) ==
    IF id + 1 > Len(ctx.defs) THEN Raise(ctx, "index out of bounds")
    ELSE Bind([ctx EXCEPT !.defs[id] = f, !.writes[id] = @ + 1], LAMBDA w :
         IF w.callable = <<>>
         THEN Raise(w, "unwrap on None")
         ELSE IF w.callable[Len(w.callable)].id = id THEN w
         ELSE Raise(w, "assertion failed"))

\* Ctx::def after the call of main: the overwrite of the placeholder and the assertion
DefEnd(ctx, id, f) ==
    IF id + 1 > Len(ctx.defs) THEN Raise(ctx, "index out of bounds")
    ELSE Bind([ctx EXCEPT !.defs[id + 1] = f, !.writes[id + 1] = @ + 1], LAMBDA w :
         IF w.callable = <<>>
         THEN Raise(w, "unwrap on None")
         ELSE IF w.callable[Len(w.callable)].id = id THEN w
         ELSE Raise(w, "assertion failed"))

----------------------------------------------------------------------------
(* Inputs. *)

\* jaq_syn::Call: a name and the parameters, each Arg::Var or Arg::Fun
F0 == [name |-> "f", args |-> <<>>]
G2 == [name |-> "g", args |-> << <<"Fun", "a">>, <<"Var", "$b">> >>]

\* mir::Def: the signature and whether the definition is tail-recursive
DefSet == { [sig |-> F0, tailrec |-> FALSE], [sig |-> G2, tailrec |-> TRUE] }

Int1 == <<"Int", 1>>
Num2 == <<"Num", "2.0">>

CallDef(rel, skip, tail, args) == <<"Call", <<"Def", rel, skip, tail>>, args>>

Pipe(l, r) == <<"Binary", l, <<"Pipe", None>>, r>>

\* the arguments of a call of the Callable `c`: as many as `c` declares
ArgsOf(c) == IF c.sig.args = <<>> THEN <<>> ELSE <<Int1, Num2>>

\* a call of the Callable at `rel` of `stack`
CallOf(stack, rel, skip, tail) == CallDef(rel, skip, tail, ArgsOf(stack[rel + 1]))

\* bodies of a definition lowered while `stack` is the callable stack: every call names
\* a Callable in scope and supplies the arguments it declares
BodySet(stack) ==
    { <<"Id">>, <<"Recurse">>,
      <<"Call", <<"Native", "length">>, <<Int1, Num2>>>>,
      <<"Call", <<"Arg", "a">>, <<>>>>,
      <<"Call", <<"Arg", "a">>, <<Int1>>>> }
    \cup { CallOf(stack, rel, 0, tail) : rel \in 0..(Len(stack) - 1), tail \in BOOLEAN }
    \cup { Pipe(CallOf(stack, r1, 0, FALSE),
                CallDef(r2, 1, TRUE,
                        IF stack[r2 + 1].sig.args = <<>> THEN <<>>
                        ELSE <<CallOf(stack, r1, 1, FALSE), Int1>>)) :
             r1 \in 0..(Len(stack) - 1), r2 \in 0..(Len(stack) - 1) }

----------------------------------------------------------------------------
(* The state machine of definitions. *)

Cur == [defs |-> defs, callable |-> callable, panic |-> panic, allocs |-> allocs,
        writes |-> writes, events |-> <<>>]

Commit(c) ==
    /\ defs' = c.defs
    /\ callable' = c.callable
    /\ panic' = c.panic
    /\ allocs' = c.allocs
    /\ writes' = c.writes
    /\ events' = c.events
    /\ phase' = IF Panicked(c) THEN "aborted" ELSE "ready"

Top == frames[Len(frames)]

RECURSIVE Announced(_)
\* nested definitions announced by the active definitions and not returned yet
Announced(fs) ==
    IF fs = <<>> THEN 0
    ELSE (fs[Len(fs)].defs_len - fs[Len(fs)].done) + Announced(SubSeq(fs, 1, Len(fs) - 1))

\* nested definitions announced and not entered yet: every active definition but the
\* outermost is one that was announced and has been entered
Pending == IF frames = <<>> THEN 0 ELSE Announced(frames) - (Len(frames) - 1)

NoLast == [op |-> "none", input |-> <<>>, f |-> <<>>, id |-> Dead, pre |-> 0,
           stack |-> <<>>, frame |-> <<>>]

Init ==
    /\ phase = "new"
    /\ defs = NewCtx.defs
    /\ callable = NewCtx.callable
    /\ panic = NewCtx.panic
    /\ allocs = NewCtx.allocs
    /\ writes = NewCtx.writes
    /\ events = NewCtx.events
    /\ frames = <<>>
    /\ placed = <<>>
    /\ rich = 0
    /\ ops = 0
    /\ last = NoLast
    /\ twin = <<>>

\* Ctx::default()
Default ==
    /\ phase = "new"
    /\ Commit(CtxDefault)
    /\ last' = [NoLast EXCEPT !.op = "default"]
    /\ UNCHANGED <<frames, placed, rich, ops, twin>>

\* the state after DefBegin gave `b` for a definition with `n` nested definitions
Entered(b, sig, tailrec, n) ==
    /\ Commit(b.ctx)
    /\ placed' = Append(placed, b.id)
    /\ frames' = Append(frames,
           [id |-> b.id, sig |-> sig, tailrec |-> tailrec, entry |-> callable,
            pre |-> Len(defs), defs_len |-> n, done |-> 0, kids |-> <<>>,
            pc |-> "defs", body |-> <<>>, stack |-> <<>>])
    /\ last' = [NoLast EXCEPT !.op = "enter", !.id = b.id]

\* a call of Ctx::def, by the user of the context or by the loop of Ctx::main, up to
\* the end of the loop over the definition's own nested definitions if it has none
DefEnter ==
    /\ phase = "ready"
    /\ IF frames = <<>> THEN TRUE ELSE Top.pc = "defs" /\ Top.done < Top.defs_len
    /\ \E d \in DefSet, n \in 0..MaxDefs :
         /\ Len(placed) + Pending + n + (IF frames = <<>> THEN 1 ELSE 0) <= MaxDefs
         /\ Entered(DefBegin(Cur, d.sig, d.tailrec), d.sig, d.tailrec, n)
    /\ UNCHANGED <<rich, ops, twin>>

\* the state after MainBody gave `m` for the body `body`
Lowered(m, body) ==
    /\ Commit(m.ctx)
    /\ rich' = IF body = <<"Id">> THEN rich ELSE rich + 1
    /\ frames' = [frames EXCEPT ![Len(frames)].pc = "overwrite",
                                ![Len(frames)].body = m.f,
                                ![Len(frames)].stack = callable]
    /\ last' = [NoLast EXCEPT !.op = "body", !.input = body, !.f = m.f,
                              !.pre = Len(defs), !.stack = callable]

\* Ctx::main, from the end of the loop over main.defs to its return
Body ==
    /\ phase = "ready"
    /\ frames # <<>>
    /\ Top.pc = "defs" /\ Top.done = Top.defs_len
    /\ \E body \in (IF rich < MaxRich THEN BodySet(callable) ELSE {<<"Id">>}) :
         Lowered(MainBody(Cur, Top.defs_len, body), body)
    /\ UNCHANGED <<placed, ops, twin>>

\* Ctx::def, from the return of main to its own return
DefReturn ==
    /\ phase = "ready"
    /\ frames # <<>>
    /\ Top.pc = "overwrite"
    /\ Commit(DefEnd(Cur, Top.id, Top.body))
    /\ LET rest == SubSeq(frames, 1, Len(frames) - 1)
       IN  frames' = IF rest = <<>> THEN rest
                     ELSE [rest EXCEPT ![Len(rest)].done = @ + 1,
                                       ![Len(rest)].kids = Append(@, Top.id)]
    /\ last' = [NoLast EXCEPT !.op = "def", !.id = Top.id, !.frame = Top]
    /\ UNCHANGED <<placed, rich, ops, twin>>

Next == Default \/ DefEnter \/ Body \/ DefReturn

Spec == Init /\ [][Next]_vars

----------------------------------------------------------------------------
(* Lowering of single expressions in a context that has lowered others.    *)

\* sequences over S of the lengths lo..hi
SeqsOf(S, lo, hi) == UNION { [1..n -> S] : n \in lo..hi }

VarX == <<"Var", "$x">>
Base64 == <<"Call", <<"Native", "@base64">>, <<>>>>

\* jaq_syn::Str: an optional format and the parts, literal or interpolated
StrOf(fmt, parts) == [fmt |-> fmt, parts |-> parts]

StrSet ==
    { StrOf(fmt, parts) :
        fmt \in {None, Some(Base64)},
        parts \in SeqsOf({ <<"Str", "a">>, <<"Fun", VarX>> }, 0, MaxParts) }

\* the keys of object pairs: plain and interpolated strings
KeySet ==
    { StrOf(None, << <<"Str", "foo">> >>),
      StrOf(None, << <<"Str", "a">>, <<"Fun", VarX>> >>),
      StrOf(Some(Base64), << <<"Fun", <<"Id">>>> >>) }

\* `.[k]`, written out: the path on `.` of the one essential index `k`
IndexByKey(k) == <<"Path", <<"Id">>, << <<<<"Index", <<"Str", k>>>>, "Essential">> >>>>

\* `{k}` and `{k: .[k]}`
Shorthand(k) == <<"Object", << <<"Str", k, None>> >>>>
Explicit(k) == <<"Object", << <<"Str", k, Some(IndexByKey(k))>> >>>>

BranchLists == SeqsOf({ <<VarX, Int1>>, <<<<"Id">>, Num2>> }, 1, MaxBranches)

\* one expression for each arm of Ctx::filter that no other action reaches
ExprSet ==
    { <<"Fold", "Reduce", <<"Id">>, Int1, VarX>>,
      <<"Array", None>>, <<"Array", Some(Int1)>>,
      <<"Object", <<>>>>,
      <<"Object", << <<"Filter", VarX, Int1>>,
                     <<"Str", StrOf(None, << <<"Str", "a">> >>), Some(Num2)>> >>>>,
      <<"Try", Int1>>, <<"Neg", Int1>>, <<"Recurse">>,
      <<"TryCatch", Int1, None>>, <<"TryCatch", Int1, Some(<<"Id">>)>>,
      <<"Binary", Int1, <<"Pipe", Some("$x")>>, VarX>>,
      <<"Binary", Int1, <<"Comma">>, Num2>>,
      <<"Binary", Int1, <<"Alt">>, Num2>>,
      <<"Binary", Int1, <<"Or">>, Num2>>,
      <<"Binary", Int1, <<"And">>, Num2>>,
      <<"Binary", Int1, <<"Math", "Sub">>, Num2>>,
      <<"Binary", Int1, <<"Ord", "Lt">>, Num2>>,
      <<"Binary", <<"Id">>, <<"Assign">>, Num2>>,
      <<"Binary", <<"Id">>, <<"Update">>, Num2>>,
      <<"Binary", <<"Id">>, <<"UpdateWith", "Add">>, Num2>>,
      <<"Ite", << <<VarX, Int1>> >>, Some(Num2)>>,
      <<"Path", <<"Id">>, << <<<<"Range", Some(Int1), None>>, "Optional">>,
                             <<<<"Range", None, Some(Num2)>>, "Essential">> >>>> }

InitExpr ==
    /\ phase = "ready"
    /\ defs = CtxDefault.defs
    /\ callable = CtxDefault.callable
    /\ panic = CtxDefault.panic
    /\ allocs = CtxDefault.allocs
    /\ writes = CtxDefault.writes
    /\ events = <<>>
    /\ frames = <<>>
    /\ placed = <<>>
    /\ rich = 0
    /\ ops = 0
    /\ last = NoLast
    /\ twin = <<>>

\* the state after Ctx::get gave `g` for `e`, `t` being what it gives for the other
\* spelling of `e` in the same context
Got(op, input, g, t) ==
    /\ Commit(g.ctx)
    /\ ops' = ops + 1
    /\ last' = [NoLast EXCEPT !.op = op, !.input = input, !.id = g.id, !.pre = Len(defs)]
    /\ twin' = [defs |-> t.ctx.defs, id |-> t.id]
    /\ UNCHANGED <<frames, placed, rich>>

\* Ctx::get of an interpolated string
LowerStr ==
    /\ phase = "ready" /\ Len(defs) <= MaxArena
    /\ \E str \in StrSet :
          Got("str", str, Get(Cur, <<"Str", str>>), Get(Cur, <<"Str", str>>))

\* Ctx::get of an object of the one pair `{k}`
LowerObject ==
    /\ phase = "ready" /\ Len(defs) <= MaxArena
    /\ \E k \in KeySet :
          Got("object", k, Get(Cur, Shorthand(k)), Get(Cur, Explicit(k)))

\* Ctx::get of a conditional without else
LowerIte ==
    /\ phase = "ready" /\ Len(defs) <= MaxArena
    /\ \E if_thens \in BranchLists :
          Got("ite", if_thens, Get(Cur, <<"Ite", if_thens, None>>),
              Get(Cur, <<"Ite", if_thens, Some(<<"Id">>)>>))

\* Ctx::get of any other expression
Lower ==
    /\ phase = "ready" /\ Len(defs) <= MaxArena
    /\ \E e \in ExprSet : Got("expr", e, Get(Cur, e), Get(Cur, e))

NextExpr == LowerStr \/ LowerObject \/ LowerIte \/ Lower

SpecExpr == InitExpr /\ [][NextExpr]_vars

----------------------------------------------------------------------------
(* What the claims speak of. *)

Range(q) == { q[i] : i \in 1..Len(q) }

\* the AbsIds a path part holds
PartIds(part) ==
    IF part[1][1] = "Index" THEN {part[1][2]}
    ELSE Range(part[1][2]) \cup Range(part[1][3])

\* the AbsIds a node holds
Ids(f) ==
    CASE f[1] \in {"Pipe", "Logic", "Math", "Ord", "UpdateMath"} -> {f[2], f[4]}
      [] f[1] \in {"Comma", "Alt", "Assign", "Update", "ObjSingle", "Try"} -> {f[2], f[3]}
      [] f[1] \in {"Array", "Neg"} -> {f[2]}
      [] f[1] = "Ite" -> {f[2], f[3], f[4]}
      [] f[1] = "Fold" -> {f[3], f[4], f[5]}
      [] f[1] = "Native" -> Range(f[3])
      [] f[1] = "Call" -> {f[2]} \cup { f[5][i][2] : i \in 1..Len(f[5]) }
      [] f[1] = "Path" -> {f[2]} \cup UNION { PartIds(f[3][i]) : i \in 1..Len(f[3]) }
      [] OTHER -> {}

\* the Callable that Ctx::def pushes for the definition of the frame `fr`
CallableOf(fr) == [sig |-> fr.sig, id |-> fr.id, tailrec |-> fr.tailrec]

\* Ctx::main is about to lower the body of the innermost active definition
AtBody == phase = "ready" /\ frames # <<>> /\ Top.pc = "defs" /\ Top.done = Top.defs_len

\* the frame of the definition whose list the innermost active definition belongs to
Parent == frames[Len(frames) - 1]

\* positions on the stack of the Callables of the innermost definition and its siblings
SiblingsOnStack ==
    { i \in 1..Len(callable) : callable[i].id \in Range(Parent.kids) \cup {Top.id} }

DefEvents == { k \in 1..Len(events) : events[k].call[1] = "Def" }

\* the Callable the k-th event's call names
Target(k) == events[k].stack[events[k].call[2] + 1]

\* slots the last step pushed
NewSlots == (last.pre + 1)..Len(defs)

----------------------------------------------------------------------------
(* C1 *)

BootArena ==
    << <<"Id">>, <<"ToString">>, <<"ObjEmpty">>,
       <<"Path", 2, << <<<<"Range", <<>>, <<>>>>, "Essential">> >>>>,
       <<"Path", 0, << <<<<"Range", <<>>, <<>>>>, "Optional">> >>>>,
       <<"Call", 7, "Throw", 0, <<>>>>,
       <<"Pipe", 4, FALSE, 5>>,
       <<"Comma", 0, 6>> >>

\* C1: once Ctx::default has run and before any definition is lowered, no assertion of
\* the bootstrap has failed, the arena holds 8 slots, identity, to-string, the empty
\* generator and the deep recursion sit at 0, 1, 3 and 7, and the arena is the one fixed
\* arena (so any two fresh contexts agree)
C1_Bootstrap ==
    (phase # "new" /\ placed = <<>>) =>
        /\ phase = "ready" /\ panic = NoPanic
        /\ Len(defs) = 8
        /\ <<IDENTITY, TOSTRING, EMPTY, RECURSE>> = <<0, 1, 3, 7>>
        /\ defs[IDENTITY + 1] = <<"Id">>
        /\ defs[TOSTRING + 1] = <<"ToString">>
        /\ defs[EMPTY + 1][1] = "Path" /\ defs[defs[EMPTY + 1][2] + 1] = <<"ObjEmpty">>
        /\ defs[RECURSE + 1] = <<"Comma", IDENTITY, RECURSE - 1>>
        /\ defs = BootArena
        /\ callable = <<>>

C1_Fresh == phase = "ready" /\ last.op = "default" /\ placed = <<>> /\ Len(defs) = 8

----------------------------------------------------------------------------
(* C2 *)

TRPanic == "TR call from inside a non-TR filter"

\* C2: the convention of every lowered call of a definition follows the table on
\* (tail, tailrec of the target); a tail call of a target that is not tail-recursive
\* panics, is the last thing lowering does and leaves no call node behind
C2_Convention ==
    \A k \in DefEvents :
        LET tail == events[k].call[4]
            tr   == Target(k).tailrec
            out  == events[k].out
        IN  /\ (tail /\ tr) => (out[1] = "Call" /\ out[3] = "Throw")
            /\ (~tail /\ tr) => (out[1] = "Call" /\ out[3] = "Catch")
            /\ (~tail /\ ~tr) => (out[1] = "Call" /\ out[3] = "Normal")
            /\ (tail /\ ~tr) =>
                  /\ out = Aborted
                  /\ phase = "aborted" /\ panic = TRPanic
                  /\ k = Len(events)
                  /\ Cardinality({ i \in NewSlots : defs[i][1] = "Call" })
                        <= Cardinality(DefEvents) - 1

C2_TailCallOfNonTR ==
    /\ phase = "aborted"
    /\ \E k \in DefEvents : events[k].call[4] /\ ~Target(k).tailrec
    /\ \E k \in DefEvents : ~events[k].call[4] /\ Target(k).tailrec

----------------------------------------------------------------------------
(* C7 *)

\* the i-th argument of the k-th event's call was lowered to the slot named at ids[i]
ArgLowered(k, i) ==
    LET ev == events[k]
    IN  /\ ev.ids[i] >= 0 /\ ev.ids[i] < Len(defs)
        /\ i > 1 => ev.ids[i - 1] < ev.ids[i]
        /\ ev.args[i][1] \in {"Int", "Num"} => defs[ev.ids[i] + 1] = ev.args[i]
        /\ ev.args[i][1] = "Call" => defs[ev.ids[i] + 1][1] = "Call"

\* C7: a call of a definition that supplies as many arguments as the target declares
\* names the target's slot, keeps the skip count, and holds the lowered arguments in
\* source order, each tagged as the target's parameter at that position; a native call
\* holds the lowered arguments in source order, untagged
C7_CallArgs ==
    \A k \in 1..Len(events) :
        LET ev == events[k]
        IN  /\ (ev.call[1] = "Def" /\ ev.out # Aborted
                    /\ Len(ev.args) = Len(Target(k).sig.args)) =>
                  /\ ev.out[2] = Target(k).id
                  /\ ev.out[4] = ev.call[3]
                  /\ Len(ev.out[5]) = Len(ev.args)
                  /\ \A i \in 1..Len(ev.args) :
                        /\ ev.out[5][i] = <<Target(k).sig.args[i][1], ev.ids[i]>>
                        /\ ArgLowered(k, i)
            /\ ev.call[1] = "Native" =>
                  /\ ev.out = <<"Native", ev.call[2], ev.ids>>
                  /\ Len(ev.ids) = Len(ev.args)
                  /\ \A i \in 1..Len(ev.args) : ArgLowered(k, i)

C7_TwoArgs ==
    /\ phase = "ready"
    /\ \E k \in DefEvents :
          /\ events[k].out # Aborted
          /\ Len(events[k].args) = 2
          /\ Len(Target(k).sig.args) = 2
          /\ events[k].call[3] = 1

----------------------------------------------------------------------------
(* C3 *)

\* C3 as stated: while a body is lowered, the Callable of every definition of the
\* list the definition belongs to is on the stack, the later siblings' included
C3_AllSiblingsPushed ==
    (AtBody /\ Len(frames) >= 2) => Cardinality(SiblingsOnStack) = Parent.defs_len

\* C3, amended: while a body is lowered, the Callables of the definition itself, of the
\* siblings before it in its list and of its own nested definitions are on the stack,
\* right above the stack the enclosing definition was entered with and its Callable;
\* the siblings after it are not.  Every call the body makes is classified against a
\* Callable of that stack whose placeholder slot exists
C3_EarlierSiblingsPushed ==
    /\ AtBody =>
          /\ Len(callable) = Len(Top.entry) + 1 + Top.defs_len
          /\ SubSeq(callable, 1, Len(Top.entry)) = Top.entry
          /\ callable[Len(Top.entry) + 1] = CallableOf(Top)
          /\ \A i \in 1..Top.defs_len : callable[Len(Top.entry) + 1 + i].id = Top.kids[i]
    /\ (AtBody /\ Len(frames) >= 2) =>
          /\ Top.entry = Append(Parent.entry, CallableOf(Parent)) \o
                            SubSeq(callable, Len(Parent.entry) + 2, Len(Top.entry))
          /\ Len(Top.entry) = Len(Parent.entry) + 1 + Parent.done
          /\ \A i \in 1..Parent.done :
                callable[Len(Parent.entry) + 1 + i].id = Parent.kids[i]
          /\ Cardinality(SiblingsOnStack) = Parent.done + 1
    /\ last.op = "body" =>
          \A k \in DefEvents :
              /\ events[k].stack = last.stack
              /\ events[k].call[2] < Len(last.stack)
              /\ Target(k).id \in Range(placed)
              /\ events[k].out # Aborted => events[k].out[2] = Target(k).id

C3_SecondSibling ==
    /\ AtBody /\ Len(frames) >= 2
    /\ Parent.done = 1 /\ Parent.defs_len = 2

----------------------------------------------------------------------------
(* C8 *)

AssertionPanics == {"assertion failed", "attempt to subtract with overflow",
                    "unwrap on None", "index out of bounds"}

\* C8: when def returns, the stack is the stack it was entered with and the Callable
\* of the definition on top, whatever was nested in it; neither the assertion of def
\* nor the drain of main fails; the slots of the nested definitions are still there
C8_StackAfterDef ==
    /\ panic \notin AssertionPanics
    /\ (phase = "ready" /\ frames # <<>> /\ Top.pc = "overwrite") =>
          callable = Append(Top.entry, CallableOf(Top))
    /\ (phase = "ready" /\ last.op = "def") =>
          /\ callable = Append(last.frame.entry, CallableOf(last.frame))
          /\ Len(last.frame.kids) = last.frame.defs_len
          /\ Len(defs) >= last.frame.pre + 1 + Len(last.frame.kids)
          /\ \A i \in 1..Len(last.frame.kids) :
                /\ last.frame.kids[i] > last.frame.id
                /\ last.frame.kids[i] < Len(defs)
                /\ writes[last.frame.kids[i] + 1] = 1

C8_NestedReturned ==
    /\ phase = "ready" /\ last.op = "def"
    /\ Len(frames) >= 1
    /\ Len(last.frame.kids) >= 1

----------------------------------------------------------------------------
(* C9 *)

\* the step overwrites the slot at position i, the placeholder of the innermost
\* definition, whose body and nested definitions are lowered
IsOverwrite(i) ==
    /\ frames # <<>> /\ Top.pc = "overwrite" /\ Top.done = Top.defs_len
    /\ i = Top.id + 1
    /\ defs'[i] = Top.body
    /\ writes[i] = 0 /\ writes'[i] = 1
    /\ \A j \in 1..Len(Top.kids) : writes[Top.kids[j] + 1] = 1
    /\ Len(defs') = Len(defs)
    /\ \A j \in 1..Len(defs) : j # i => (defs'[j] = defs[j] /\ writes'[j] = writes[j])

ActiveIds == { frames[i].id : i \in 1..Len(frames) }

ArenaStep ==
    /\ Len(defs') >= Len(defs)
    /\ allocs' = [i \in 1..Len(defs') |-> i - 1]
    /\ \A i \in 1..Len(defs) :
          (defs'[i] # defs[i] \/ writes'[i] # writes[i]) => IsOverwrite(i)
    /\ \A i \in (Len(defs) + 1)..Len(defs') : writes'[i] = 0
    /\ Len(frames') < Len(frames) => IsOverwrite(Top.id + 1)
    /\ \A j \in 1..Len(placed') :
          writes'[placed'[j] + 1] = IF placed'[j] \in ActiveIds' THEN 0 ELSE 1

\* C9: no step shrinks the arena, the n-th push returns n - 1, and no step changes a
\* slot that exists, except that the return of def overwrites the placeholder of its
\* definition, once, after the body and the nested definitions are lowered, leaving
\* the length and every other slot alone
C9_Arena == [][ArenaStep]_vars

C9_Overwritten ==
    /\ phase = "ready" /\ last.op = "def"
    /\ writes[last.id + 1] = 1
    /\ defs[last.id + 1] # <<"Id">>
    /\ Len(last.frame.kids) >= 1

----------------------------------------------------------------------------
(* C10 *)

\* C10: when def returns to the user of the context, every AbsId held by a node and
\* the AbsId returned name slots of the arena, and every call node names the deep
\* recursion or the slot of a definition that has been overwritten with its body
C10_Refs ==
    (phase = "ready" /\ last.op = "def" /\ frames = <<>>) =>
        /\ last.id >= 0 /\ last.id < Len(defs)
        /\ \A i \in 1..Len(defs) :
              /\ \A r \in Ids(defs[i]) : r >= 0 /\ r < Len(defs)
              /\ defs[i][1] = "Call" =>
                    \/ defs[i][2] = RECURSE
                    \/ (defs[i][2] \in Range(placed) /\ writes[defs[i][2] + 1] = 1)

C10_SelfCall ==
    /\ phase = "ready" /\ last.op = "def" /\ frames = <<>>
    /\ \E i \in 1..Len(defs) :
          /\ defs[i][1] = "Call"
          /\ defs[i][2] = last.id
          /\ defs[i][5] # <<>>

----------------------------------------------------------------------------
(* The tree an arena denotes. *)

RECURSIVE Unfold(_, _)
\* the node `f` of the arena `d` with every AbsId but a call's target replaced by the
\* tree of the slot it names
Unfold(d, f) ==
    LET U(id) == Unfold(d, d[id + 1])
        O(o) == IF IsSome(o) THEN Some(U(o[1])) ELSE None
    IN  CASE f[1] \in {"Pipe", "Logic", "Math", "Ord", "UpdateMath"} ->
                <<f[1], U(f[2]), f[3], U(f[4])>>
          [] f[1] \in {"Comma", "Alt", "Assign", "Update", "ObjSingle", "Try"} ->
                <<f[1], U(f[2]), U(f[3])>>
          [] f[1] \in {"Array", "Neg"} -> <<f[1], U(f[2])>>
          [] f[1] = "Ite" -> <<f[1], U(f[2]), U(f[3]), U(f[4])>>
          [] f[1] = "Fold" -> <<f[1], f[2], U(f[3]), U(f[4]), U(f[5])>>
          [] f[1] = "Native" -> <<f[1], f[2], [i \in 1..Len(f[3]) |-> U(f[3][i])]>>
          [] f[1] = "Call" ->
                <<f[1], f[2], f[3], f[4],
                  [i \in 1..Len(f[5]) |-> <<f[5][i][1], U(f[5][i][2])>>]>>
          [] f[1] = "Path" ->
                <<f[1], U(f[2]),
                  [i \in 1..Len(f[3]) |->
                      IF f[3][i][1][1] = "Index"
                      THEN <<<<"Index", U(f[3][i][1][2])>>, f[3][i][2]>>
                      ELSE <<<<"Range", O(f[3][i][1][2]), O(f[3][i][1][3])>>, f[3][i][2]>>]>>
          [] OTHER -> f

\* the tree of the slot `id` of the arena `d`
TreeAt(d, id) == Unfold(d, d[id + 1])

\* the tree of an interpolated string: its parts added up from the right
RECURSIVE RightAssoc(_)
RightAssoc(ps) ==
    IF Len(ps) = 1 THEN ps[1] ELSE <<"Math", ps[1], "Add", RightAssoc(Tail(ps))>>

\* the trees of the expressions used as parts and formats
TreeOf(e) == IF e = Base64 THEN <<"Native", "@base64", <<>>>> ELSE e

FmtTree(str) == IF IsSome(str.fmt) THEN TreeOf(str.fmt[1]) ELSE <<"ToString">>

PartTree(str, i) ==
    IF str.parts[i][1] = "Str" THEN <<"Str", str.parts[i][2]>>
    ELSE <<"Pipe", TreeOf(str.parts[i][2]), FALSE, FmtTree(str)>>

StrTree(str) ==
    IF str.parts = <<>> THEN <<"Str", "">>
    ELSE RightAssoc([i \in 1..Len(str.parts) |-> PartTree(str, i)])

NewOf(tag) == { i \in NewSlots : defs[i][1] = tag }

----------------------------------------------------------------------------
(* C4 *)

PairOfKey(d, id, k) ==
    LET f == d[id + 1]
        v == d[f[3] + 1]
    IN  /\ f[1] = "ObjSingle"
        /\ TreeAt(d, f[2]) = StrTree(k)
        /\ v[1] = "Path"
        /\ d[v[2] + 1] = <<"Id">>
        /\ Len(v[3]) = 1
        /\ v[3][1][1][1] = "Index" /\ v[3][1][2] = "Essential"
        /\ TreeAt(d, v[3][1][1][2]) = StrTree(k)

----------------------------------------------------------------------------
(* C5 *)

RECURSIVE ChainOk(_, _, _)
\* from the node `f` on, the branches `bs` are conditional nodes linked by their else
\* identifiers in source order, the last one's naming an identity node
ChainOk(d, f, bs) ==
    IF bs = <<>> THEN f = <<"Id">>
    ELSE /\ f[1] = "Ite"
         /\ d[f[2] + 1] = Head(bs)[1]
         /\ d[f[3] + 1] = Head(bs)[2]
         /\ ChainOk(d, d[f[4] + 1], Tail(bs))

\* C5: a conditional without else lowers to the node and the arena that the same
\* conditional with the else-branch `.` lowers to; n branches give n conditional
\* nodes, chained by their else identifiers in source order down to an identity node
C5_NoElseIsIdentity ==
    last.op = "ite" =>
        /\ panic = NoPanic
        /\ twin.defs = defs /\ twin.id = last.id
        /\ ChainOk(defs, defs[last.id + 1], last.input)
        /\ Cardinality(NewOf("Ite")) = Len(last.input)
        /\ Len(defs) = last.pre + 3 * Len(last.input) + 1

C5_ThreeBranches ==
    /\ last.op = "ite" /\ ops >= 2
    /\ Len(last.input) = 3

----------------------------------------------------------------------------
(* C6 *)

\* C6: an interpolated string lowers to its parts added up from the right, a literal
\* part being a string node and an interpolated part the pipe of its filter into the
\* format (to-string, AbsId 1, if none is given); n >= 1 parts take n - 1 additions,
\* no part gives the empty string and no addition
C6_Interpolation ==
    last.op = "str" =>
        /\ panic = NoPanic
        /\ TreeAt(defs, last.id) = StrTree(last.input)
        /\ \A i \in NewOf("Pipe") :
              defs[i][4] = IF IsSome(last.input.fmt) THEN last.pre ELSE TOSTRING
        /\ Cardinality(NewOf("Pipe")) =
              Cardinality({ i \in 1..Len(last.input.parts) : last.input.parts[i][1] = "Fun" })
        /\ Cardinality(NewOf("Math")) =
              IF last.input.parts = <<>> THEN 0 ELSE Len(last.input.parts) - 1
        /\ last.input.parts = <<>> => defs[last.id + 1] = <<"Str", "">>

C6_ThreeParts ==
    /\ last.op = "str" /\ ops >= 2
    /\ last.input.fmt = None
    /\ Len(last.input.parts) = 3
    /\ last.input.parts[1][1] = "Str" /\ last.input.parts[2][1] = "Fun"
    /\ last.input.parts[3][1] = "Str"

====
